---- MODULE Spec2Model ----
(***************************************************************************)
(* Model of floodgate's JumpingWindow (src/src/jumping_window.rs): a       *)
(* fixed-window rate limiter with capacity, period, last_reset and tokens. *)
(* Instants and Durations are natural numbers of clock ticks.  Every       *)
(* method is an operator from the struct (a record) and the resolved `now` *)
(* to the struct after the call and the value returned; one action per     *)
(* public method applies it to the variables.                              *)
(***************************************************************************)
EXTENDS Integers, Naturals, Sequences, FiniteSets, TLC

\* Bounds of the model.
MaxCapacity == 2
MaxPeriod == 3
MaxTime == 5

VARIABLES
    capacity,        \* JumpingWindow.capacity
    period,          \* JumpingWindow.period
    last_reset,      \* JumpingWindow.last_reset
    tokens,          \* JumpingWindow.tokens
    clock,           \* the monotonic clock read by Instant::now()
    op,              \* name of the last method called ("new" after construction)
    arg,             \* the `now: Option<Instant>` argument of the last call
    ret,             \* the value the last call returned
    pre_tokens,      \* tokens immediately before the last call
    pre_last_reset,  \* last_reset immediately before the last call
    now_first,       \* the instant `now` resolved to at the call's first read
    now_second,      \* the instant `now` resolved to at the call's last read
    resets,          \* how many times the last call ran the body of reset
    used,            \* trigger calls that returned None since the last reset
    pre_used,        \* used immediately before the last call
    log              \* per instant, the triggers that returned None at it
                     \* (recorded by the in-order specification only, for
                     \* the instants no more than period before the last now)

vars == <<capacity, period, last_reset, tokens, clock, op, arg, ret,
          pre_tokens, pre_last_reset, now_first, now_second, resets,
          used, pre_used, log>>

Instants == 0..MaxTime

\* Option<Instant>
NoInstant == [some |-> FALSE, val |-> 0]
SomeInstant(t) == [some |-> TRUE, val |-> t]
OptInstant == {NoInstant} \cup {SomeInstant(t) : t \in Instants}

\* Returned values, tagged by their Rust type.
RetUnit == [tag |-> "unit", val |-> 0]
RetU64(n) == [tag |-> "u64", val |-> n]
RetDuration(d) == [tag |-> "Duration", val |-> d]
RetBool(b) == [tag |-> "bool", val |-> IF b THEN 1 ELSE 0]
RetSome(d) == [tag |-> "Some", val |-> d]
RetNone == [tag |-> "None", val |-> 0]

\* The struct as a record.
Self == [capacity |-> capacity, period |-> period,
         last_reset |-> last_reset, tokens |-> tokens]

\* now.unwrap_or_else(Instant::now), clk being the clock at the time of the read
unwrap_or_now(now, clk) == IF now.some THEN now.val ELSE clk

\* duration_since as the absolute difference of the two instants
duration_since_abs(later, earlier) ==
    IF later >= earlier THEN later - earlier ELSE earlier - later

\* Instant::duration_since: saturates to zero when `earlier` is later than self
duration_since(later, earlier) == IF later >= earlier THEN later - earlier ELSE 0

\* reset that restores the tokens but forgets to move the window start
Reset_keeps_last_reset(self, now) ==
    [self |-> [self EXCEPT !.tokens = self.capacity],
     ret |-> RetUnit, resets |-> 1]

\* reset that acts only when the window has elapsed
Reset_when_due(self, now) ==
    IF duration_since(now, self.last_reset) > self.period
    THEN [self |-> [self EXCEPT !.tokens = self.capacity, !.last_reset = now],
          ret |-> RetUnit, resets |-> 1]
    ELSE [self |-> self, ret |-> RetUnit, resets |-> 1]

\* reset that always leaves at least one token
Reset_min_one(self, now) ==
    [self |-> [self EXCEPT !.tokens = IF self.capacity = 0 THEN 1
                                      ELSE self.capacity,
                           !.last_reset = now],
     ret |-> RetUnit, resets |-> 1]

\* reset that moves the window start but forgets to restore the tokens
Reset_keeps_tokens(self, now) ==
    [self |-> [self EXCEPT !.last_reset = now],
     ret |-> RetUnit, resets |-> 1]

\* pub fn reset: the body, with `now` already resolved
Reset(self, now) ==
    [self |-> [self EXCEPT !.tokens = self.capacity, !.last_reset = now],
     ret |-> RetUnit, resets |-> 1]

\* tokens that resets at `>=` instead of `>`
Tokens_ge(self, now) ==
    IF duration_since(now, self.last_reset) >= self.period
    THEN LET r == Reset(self, now)
         IN [self |-> r.self, ret |-> RetU64(r.self.tokens), resets |-> r.resets]
    ELSE [self |-> self, ret |-> RetU64(self.tokens), resets |-> 0]

\* tokens that returns the count it read before the reset
Tokens_stale(self, now) ==
    IF duration_since(now, self.last_reset) > self.period
    THEN LET r == Reset(self, now)
         IN [self |-> r.self, ret |-> RetU64(self.tokens), resets |-> r.resets]
    ELSE [self |-> self, ret |-> RetU64(self.tokens), resets |-> 0]

\* tokens that measures from now to last_reset instead of the reverse
Tokens_swapped(self, now) ==
    IF duration_since(self.last_reset, now) > self.period
    THEN LET r == Reset(self, now)
         IN [self |-> r.self, ret |-> RetU64(r.self.tokens), resets |-> r.resets]
    ELSE [self |-> self, ret |-> RetU64(self.tokens), resets |-> 0]

\* tokens that returns the field without the implicit-reset rule
Tokens_field(self, now) ==
    [self |-> self, ret |-> RetU64(self.tokens), resets |-> 0]

\* pub fn tokens
Tokens(self, now) ==
    IF duration_since(now, self.last_reset) > self.period
    THEN LET r == Reset(self, now)
         IN [self |-> r.self, ret |-> RetU64(r.self.tokens), resets |-> r.resets]
    ELSE [self |-> self, ret |-> RetU64(self.tokens), resets |-> 0]

\* next_reset that performs the overdue reset itself
NextReset_resets(self, now) ==
    LET since == duration_since(now, self.last_reset)
    IN IF since > self.period
       THEN [self |-> Reset(self, now).self, ret |-> RetDuration(0), resets |-> 1]
       ELSE [self |-> self, ret |-> RetDuration(self.period - since), resets |-> 0]

\* next_reset that returns the time elapsed instead of the time remaining
NextReset_since(self, now) ==
    LET since == duration_since(now, self.last_reset)
    IN IF since > self.period
       THEN [self |-> self, ret |-> RetDuration(0), resets |-> 0]
       ELSE [self |-> self, ret |-> RetDuration(since), resets |-> 0]

\* next_reset without the `since > self.period` test
NextReset_unguarded(self, now) ==
    LET since == duration_since(now, self.last_reset)
    IN [self |-> self, ret |-> RetDuration(self.period - since), resets |-> 0]

\* pub fn next_reset
NextReset(self, now) ==
    LET since == duration_since(now, self.last_reset)
    IN IF since > self.period
       THEN [self |-> self, ret |-> RetDuration(0), resets |-> 0]
       ELSE [self |-> self, ret |-> RetDuration(self.period - since), resets |-> 0]

\* retry_after that tests the field instead of calling tokens(now)
RetryAfter_raw(self, now1, now2) ==
    IF self.tokens = 0
    THEN LET n == NextReset(self, now2)
         IN [self |-> n.self, ret |-> RetSome(n.ret.val), resets |-> n.resets]
    ELSE [self |-> self, ret |-> RetNone, resets |-> 0]

\* pub fn retry_after; now1 and now2 are the instants the two inner calls see
RetryAfter(self, now1, now2) ==
    LET t == Tokens(self, now1)
    IN IF t.ret.val = 0
       THEN LET n == NextReset(t.self, now2)
            IN [self |-> n.self, ret |-> RetSome(n.ret.val),
                resets |-> t.resets + n.resets]
       ELSE [self |-> t.self, ret |-> RetNone, resets |-> t.resets]

\* can_trigger that tests the field instead of calling tokens(now)
CanTrigger_raw(self, now) ==
    [self |-> self, ret |-> RetBool(self.tokens # 0), resets |-> 0]

\* pub fn can_trigger
CanTrigger(self, now) ==
    LET t == Tokens(self, now)
    IN [self |-> t.self, ret |-> RetBool(t.ret.val # 0), resets |-> t.resets]

\* trigger without the `tokens == 0` test
Trigger_unchecked(self, now1, now2) ==
    LET t == Tokens(self, now1)
    IN [self |-> [t.self EXCEPT !.tokens = t.self.tokens - 1],
        ret |-> RetNone, resets |-> t.resets]

\* trigger that saturates at zero but still reports success
Trigger_saturating(self, now1, now2) ==
    LET t == Tokens(self, now1)
    IN [self |-> [t.self EXCEPT !.tokens = IF t.self.tokens = 0 THEN 0
                                           ELSE t.self.tokens - 1],
        ret |-> RetNone, resets |-> t.resets]

\* trigger that reports success without consuming a token
Trigger_no_consume(self, now1, now2) ==
    LET t == Tokens(self, now1)
    IN IF t.ret.val = 0
       THEN LET n == NextReset(t.self, now2)
            IN [self |-> n.self, ret |-> RetSome(n.ret.val),
                resets |-> t.resets + n.resets]
       ELSE [self |-> t.self, ret |-> RetNone, resets |-> t.resets]

\* trigger that restarts the window when it rejects
Trigger_restarts_window(self, now1, now2) ==
    LET t == Tokens(self, now1)
    IN IF t.ret.val = 0
       THEN LET n == NextReset(t.self, now2)
            IN [self |-> [n.self EXCEPT !.last_reset = now1],
                ret |-> RetSome(n.ret.val), resets |-> t.resets + n.resets]
       ELSE [self |-> [t.self EXCEPT !.tokens = t.self.tokens - 1],
             ret |-> RetNone, resets |-> t.resets]

\* pub fn trigger
Trigger(self, now1, now2) ==
    LET t == Tokens(self, now1)
    IN IF t.ret.val = 0
       THEN LET n == NextReset(t.self, now2)
            IN [self |-> n.self, ret |-> RetSome(n.ret.val),
                resets |-> t.resets + n.resets]
       ELSE [self |-> [t.self EXCEPT !.tokens = t.self.tokens - 1],
             ret |-> RetNone, resets |-> t.resets]

\* JumpingWindow::new(capacity, period) at some clock reading
Init ==
    /\ capacity \in 0..MaxCapacity
    /\ period \in 0..MaxPeriod
    /\ clock \in Instants
    /\ last_reset = clock
    /\ tokens = capacity
    /\ op = "new"
    /\ arg = NoInstant
    /\ ret = RetUnit
    /\ pre_tokens = capacity
    /\ pre_last_reset = clock
    /\ now_first = clock
    /\ now_second = clock
    /\ resets = 0
    /\ used = 0
    /\ pre_used = 0
    /\ log = [t \in Instants |-> 0]

\* The effect of a finished call on the variables.
Apply(name, now, r, n1, n2) ==
    /\ capacity' = r.self.capacity
    /\ period' = r.self.period
    /\ last_reset' = r.self.last_reset
    /\ tokens' = r.self.tokens
    /\ clock' = (IF now.some THEN clock ELSE n2)
    /\ op' = name
    /\ arg' = now
    /\ ret' = r.ret
    /\ pre_tokens' = tokens
    /\ pre_last_reset' = last_reset
    /\ now_first' = n1
    /\ now_second' = n2
    /\ resets' = r.resets
    /\ pre_used' = used
    /\ used' = (IF r.resets > 0 THEN 0 ELSE used)
               + (IF name = "trigger" /\ r.ret = RetNone THEN 1 ELSE 0)

\* The readings of the clock a call can make after a first reading of `clock`:
\* time may pass inside the call.
LaterReadings == {c \in Instants : c >= clock /\ c <= clock + 1}

CallTokens(now) ==
    LET n == unwrap_or_now(now, clock)
    IN Apply("tokens", now, Tokens(Self, n), n, n)

CallNextReset(now) ==
    LET n == unwrap_or_now(now, clock)
    IN Apply("next_reset", now, NextReset(Self, n), n, n)

CallRetryAfter(now) ==
    \E c2 \in LaterReadings :
        LET n1 == unwrap_or_now(now, clock)
            n2 == unwrap_or_now(now, c2)
        IN Apply("retry_after", now, RetryAfter(Self, n1, n2), n1, n2)

CallCanTrigger(now) ==
    LET n == unwrap_or_now(now, clock)
    IN Apply("can_trigger", now, CanTrigger(Self, n), n, n)

CallTrigger(now) ==
    \E c2 \in LaterReadings :
        LET n1 == unwrap_or_now(now, clock)
            n2 == unwrap_or_now(now, c2)
        IN Apply("trigger", now, Trigger(Self, n1, n2), n1, n2)

CallReset(now) ==
    LET n == unwrap_or_now(now, clock)
    IN Apply("reset", now, Reset(Self, n), n, n)

\* Time passes between calls.
Tick ==
    /\ clock < MaxTime
    /\ clock' = clock + 1
    /\ UNCHANGED <<capacity, period, last_reset, tokens, op, arg, ret,
                   pre_tokens, pre_last_reset, now_first, now_second, resets,
                   used, pre_used, log>>

Next ==
    \/ \E now \in OptInstant : CallTokens(now) /\ UNCHANGED log
    \/ \E now \in OptInstant : CallNextReset(now) /\ UNCHANGED log
    \/ \E now \in OptInstant : CallRetryAfter(now) /\ UNCHANGED log
    \/ \E now \in OptInstant : CallCanTrigger(now) /\ UNCHANGED log
    \/ \E now \in OptInstant : CallTrigger(now) /\ UNCHANGED log
    \/ \E now \in OptInstant : CallReset(now) /\ UNCHANGED log
    \/ Tick

Spec == Init /\ [][Next]_vars

\* The callers that never call reset and pass now values in order: each
\* call's now is not earlier than the last instant the call before it saw.
InOrder(now) == unwrap_or_now(now, clock) >= now_second

\* The log l once a call has seen the instant latest: later calls come
\* no earlier, so an instant more than period before latest shares no
\* interval of length period with them and its entry is dropped.
Recorded(l, latest) ==
    [t \in Instants |-> IF t + period < latest THEN 0 ELSE l[t]]

\* A call in order that is not a trigger.
InOrderCall(now) ==
    /\ InOrder(now)
    /\ log' = Recorded(log, now_first')

\* trigger in order, the instant of a trigger that returned None recorded
InOrderTrigger(now) ==
    /\ InOrder(now)
    /\ CallTrigger(now)
    /\ log' = Recorded(IF ret' = RetNone
                       THEN [log EXCEPT ![now_first'] = @ + 1]
                       ELSE log, now_first')

NextInOrder ==
    \/ \E now \in OptInstant : CallTokens(now) /\ InOrderCall(now)
    \/ \E now \in OptInstant : CallNextReset(now) /\ InOrderCall(now)
    \/ \E now \in OptInstant : CallRetryAfter(now) /\ InOrderCall(now)
    \/ \E now \in OptInstant : CallCanTrigger(now) /\ InOrderCall(now)
    \/ \E now \in OptInstant : InOrderTrigger(now)
    \/ Tick

SpecInOrder == Init /\ [][NextInOrder]_vars

TypeOK ==
    /\ capacity \in 0..MaxCapacity
    /\ period \in 0..MaxPeriod
    /\ last_reset \in Instants
    /\ clock \in Instants
    /\ arg \in OptInstant

----------------------------------------------------------------------------
\* Vocabulary of the properties.

\* The struct as it was immediately before the last call.
PreSelf == [capacity |-> capacity, period |-> period,
            last_reset |-> pre_last_reset, tokens |-> pre_tokens]

\* now - last_reset as a signed difference, for the last call
Elapsed == now_first - pre_last_reset

\* The methods that apply the implicit-reset rule through tokens(now).
ResetRuleOps == {"tokens", "can_trigger", "retry_after", "trigger"}

----------------------------------------------------------------------------
\* C1: in every reachable state 0 <= tokens <= capacity.
C1_TokensInRange == 0 <= tokens /\ tokens <= capacity

\* A rejected trigger on an exhausted counter that can hold tokens.
C1_Witness ==
    /\ op = "trigger" /\ ret.tag = "Some"
    /\ capacity > 0 /\ tokens = 0 /\ pre_tokens = 0

\* C2: once `capacity` triggers have returned None since the last reset, a
\* trigger whose now is still inside the window (now - last_reset <= period)
\* returns Some(wait) and leaves tokens = 0.
C2_Exhaustion ==
    (op = "trigger" /\ pre_used = capacity /\ Elapsed <= period)
        => (ret.tag = "Some" /\ tokens = 0)

\* The third trigger of a window of capacity 2 is rejected.
C2_Witness ==
    /\ op = "trigger" /\ capacity = 2 /\ pre_used = 2
    /\ Elapsed <= period /\ ret.tag = "Some"

\* C3: tokens(now) with now - last_reset > period returns capacity and leaves
\* last_reset = now and tokens = capacity, whatever tokens was before.
C3_WindowJump ==
    (op = "tokens" /\ Elapsed > period)
        => (ret = RetU64(capacity) /\ last_reset = now_first /\ tokens = capacity)

\* tokens(now) past the window on an exhausted counter.
C3_Witness ==
    /\ op = "tokens" /\ Elapsed > period
    /\ pre_tokens = 0 /\ capacity > 0

\* C4: with now - last_reset = period exactly, tokens, can_trigger,
\* retry_after and trigger run no reset: last_reset is unchanged and tokens
\* is what it was (less the one token a successful trigger takes); a reset
\* inside these calls happens only when now - last_reset > period.
C4_Boundary ==
    op \in ResetRuleOps =>
        /\ Elapsed = period =>
               /\ resets = 0
               /\ last_reset = pre_last_reset
               /\ tokens = IF op = "trigger" /\ pre_tokens > 0
                           THEN pre_tokens - 1 ELSE pre_tokens
        /\ resets > 0 => Elapsed > period

\* A trigger exactly at the end of a non-empty window of an exhausted counter.
C4_Witness ==
    /\ op = "trigger" /\ Elapsed = period /\ period > 0
    /\ pre_tokens = 0 /\ capacity > 0 /\ ret.tag = "Some"

\* C5: with T the token count after the implicit-reset rule for now, a
\* trigger with T > 0 returns None and leaves tokens = T - 1, and a trigger
\* with T = 0 returns Some(next_reset(now)) and leaves tokens = 0.
C5_TriggerConsumesOne ==
    op = "trigger" =>
        LET T == IF Elapsed > period THEN capacity ELSE pre_tokens
        IN /\ T > 0 => (ret = RetNone /\ tokens = T - 1)
           /\ T = 0 => /\ ret = RetSome(NextReset(Self, now_second).ret.val)
                       /\ tokens = 0

\* A trigger that succeeds only because the window had elapsed.
C5_Witness ==
    /\ op = "trigger" /\ resets = 1 /\ pre_tokens = 0
    /\ ret = RetNone /\ tokens = capacity - 1

\* C6: retry_after(now) returns Some exactly when tokens(now) on the same
\* state returns 0, and None exactly when it returns a value > 0.
C6_RetryAfterConsistent ==
    op = "retry_after" =>
        LET t == Tokens(PreSelf, now_first).ret.val
        IN /\ ret.tag = "Some" <=> t = 0
           /\ ret = RetNone <=> t > 0

\* retry_after on a counter that was exhausted but whose window has elapsed.
C6_Witness ==
    /\ op = "retry_after" /\ pre_tokens = 0 /\ capacity > 0
    /\ Elapsed > period /\ ret = RetNone

\* C7: can_trigger never consumes a token, and a trigger called right after
\* can_trigger at the same instant returns None exactly when can_trigger
\* returned true and Some exactly when it returned false.
C7_CanTriggerPredictsTrigger ==
    [][ /\ op' = "can_trigger" => tokens' >= tokens
        /\ (op = "can_trigger" /\ op' = "trigger" /\ now_first' = now_first)
               => /\ ret = RetBool(TRUE) <=> ret' = RetNone
                  /\ ret = RetBool(FALSE) <=> ret'.tag = "Some" ]_vars

\* can_trigger answered true because it ran the implicit reset itself.
C7_Witness ==
    /\ op = "can_trigger" /\ resets = 1 /\ pre_tokens = 0
    /\ ret = RetBool(TRUE) /\ tokens = capacity

\* C8: when trigger(now) or retry_after(now) returns Some(d) on a counter
\* with capacity > 0, the next call made at now + d finds tokens available:
\* can_trigger(now + d) is true and trigger(now + d) returns None.  Stated
\* for the waits d > 0, where now + d is a later instant than now.
C8_WaitIsEnough ==
    [][ ( /\ op \in {"trigger", "retry_after"} /\ ret.tag = "Some"
          /\ capacity > 0 /\ ret.val > 0
          /\ clock' = clock
          /\ now_first' = now_second + ret.val )
            => /\ op' = "can_trigger" => ret' = RetBool(TRUE)
               /\ op' = "trigger" => ret' = RetNone ]_vars

\* C9: next_reset(now) changes none of tokens, last_reset, capacity and
\* period, and never runs the implicit reset, also when it is overdue.
C9_NextResetPure ==
    [][ op' = "next_reset"
            => /\ UNCHANGED <<tokens, last_reset, capacity, period>>
               /\ resets' = 0 ]_vars

\* next_reset past the window of a counter that has used tokens.
C9_Witness ==
    /\ op = "next_reset" /\ now_first - last_reset > period
    /\ tokens < capacity /\ ret = RetDuration(0)

\* C10 as stated: next_reset(now) returns zero when now - last_reset > period
\* and otherwise period - (now - last_reset), the difference being signed.
C10_Original ==
    op = "next_reset" =>
        ret = RetDuration(IF Elapsed > period THEN 0 ELSE period - Elapsed)

\* C10 amended: next_reset(now) returns zero when now - last_reset > period
\* and otherwise period - elapsed, where elapsed is now - last_reset for
\* now >= last_reset and zero for now earlier than last_reset; so it returns
\* period when now = last_reset and half the period when now is last_reset
\* plus half the period.
C10_NextResetValue ==
    op = "next_reset" =>
        LET elapsed == IF now_first >= pre_last_reset THEN Elapsed ELSE 0
        IN /\ ret = RetDuration(IF elapsed > period THEN 0 ELSE period - elapsed)
           /\ now_first = pre_last_reset => ret.val = period
           /\ \A h \in 0..period :
                  (2 * h = period /\ now_first = pre_last_reset + h)
                      => ret.val = h

\* next_reset with a now earlier than last_reset returns the whole period.
C10_Witness ==
    /\ op = "next_reset" /\ now_first < last_reset
    /\ period > 0 /\ ret = RetDuration(period)

\* C11: reset(now) always leaves tokens = capacity and last_reset = now,
\* whatever the elapsed time and the token count; so with capacity > 0 a
\* can_trigger at the same instant right after reset returns true.
C11_ResetUnconditional ==
    [][ /\ op' = "reset" => (tokens' = capacity' /\ last_reset' = now_first')
        /\ ( /\ op = "reset" /\ op' = "can_trigger"
             /\ now_first' = now_first /\ capacity > 0 )
               => ret' = RetBool(TRUE) ]_vars

\* An explicit reset in the middle of the window of an exhausted counter.
C11_Witness ==
    /\ op = "reset" /\ pre_tokens = 0 /\ capacity > 0
    /\ pre_last_reset < now_first /\ Elapsed <= period
    /\ tokens = capacity /\ last_reset = now_first

\* C12: a tokens(now) called right after a tokens(now) with the same now
\* returns the same value and changes neither tokens nor last_reset, also
\* when the first call ran the implicit reset and when period is zero.
C12_TokensIdempotent ==
    [][ (op = "tokens" /\ op' = "tokens" /\ now_first' = now_first)
            => /\ ret' = ret
               /\ tokens' = tokens
               /\ last_reset' = last_reset ]_vars

\* A first tokens(now) that ran the implicit reset on a zero period.
C12_Witness ==
    /\ op = "tokens" /\ resets = 1 /\ period = 0
    /\ pre_tokens < capacity /\ ret = RetU64(capacity)

\* C13: with capacity = 0 tokens is 0 in every reachable state, trigger and
\* retry_after return Some, and can_trigger returns false.
C13_ZeroCapacity ==
    capacity = 0 =>
        /\ tokens = 0
        /\ op \in {"trigger", "retry_after"} => ret.tag = "Some"
        /\ op = "can_trigger" => ret = RetBool(FALSE)

\* A trigger on a zero-capacity counter that ran the implicit reset.
C13_Witness ==
    /\ capacity = 0 /\ op = "trigger" /\ resets = 1
    /\ ret.tag = "Some" /\ tokens = 0

\* C14: a step that is not an explicit reset given a now earlier than
\* last_reset never moves last_reset back, whatever now the other calls get.
C14_LastResetMonotone ==
    [][ \/ op' = "reset" /\ now_first' < last_reset
        \/ last_reset' >= last_reset ]_vars

\* A trigger with a now earlier than last_reset by more than the period.
C14_Witness ==
    /\ op = "trigger" /\ pre_last_reset - now_first > period
    /\ last_reset = pre_last_reset

\* C15: no subtraction underflows: tokens is never below zero after
\* `self.tokens -= 1`, so the decrement ran with tokens > 0, and every
\* Duration returned is period - since with since <= period, or zero.
C15_NoUnderflow ==
    /\ (op = "trigger" /\ ret = RetNone) => tokens + 1 > 0
    /\ tokens >= 0
    /\ ret.tag \in {"Duration", "Some"} => (0 <= ret.val /\ ret.val <= period)

\* next_reset long after the window on a zero period.
C15_Witness ==
    /\ op = "next_reset" /\ period = 0 /\ Elapsed > 1
    /\ ret = RetDuration(0)

\* C16: with now earlier than last_reset, tokens, can_trigger, retry_after
\* and trigger run no reset: last_reset is unchanged, tokens is what it was
\* (less the one token a successful trigger takes), and the elapsed time
\* counts as zero, so a wait returned at such a now is the whole period.
C16_OutOfOrderNoReset ==
    (op \in ResetRuleOps /\ now_first < pre_last_reset) =>
        /\ resets = 0
        /\ last_reset = pre_last_reset
        /\ tokens = IF op = "trigger" /\ pre_tokens > 0
                    THEN pre_tokens - 1 ELSE pre_tokens
        /\ (ret.tag = "Some" /\ now_second < last_reset) => ret.val = period

\* retry_after on an exhausted counter, with now more than a period early.
C16_Witness ==
    /\ op = "retry_after" /\ pre_last_reset - now_first > period
    /\ pre_tokens = 0 /\ capacity > 0 /\ ret = RetSome(period)

\* C17 as stated: tokens, next_reset, retry_after, can_trigger and trigger
\* called with now - last_reset > period all reset the counter (tokens
\* restored to capacity, last_reset set to now) before computing the result.
C17_Original ==
    (op \in ResetRuleOps \cup {"next_reset"} /\ Elapsed > period) =>
        /\ resets = 1
        /\ last_reset = now_first
        /\ tokens = IF op = "trigger" /\ capacity > 0
                    THEN capacity - 1 ELSE capacity
        /\ op = "next_reset" => ret = RetDuration(period)

\* C17 amended: tokens, retry_after, can_trigger and trigger called with
\* now - last_reset > period reset the counter (tokens restored to capacity,
\* last_reset set to now) before computing the result, which is the one of
\* the fresh window; next_reset called with now - last_reset > period
\* returns zero and resets nothing.
C17_ImplicitResetRule ==
    Elapsed > period =>
        /\ op \in ResetRuleOps =>
               /\ resets = 1
               /\ last_reset = now_first
               /\ tokens = IF op = "trigger" /\ capacity > 0
                           THEN capacity - 1 ELSE capacity
               /\ op = "tokens" => ret = RetU64(capacity)
               /\ op = "can_trigger" => ret = RetBool(capacity # 0)
               /\ op \in {"retry_after", "trigger"} =>
                      IF capacity > 0 THEN ret = RetNone
                      ELSE ret = RetSome(NextReset(Self, now_second).ret.val)
        /\ op = "next_reset" =>
               /\ resets = 0
               /\ last_reset = pre_last_reset
               /\ tokens = pre_tokens
               /\ ret = RetDuration(0)

\* next_reset past the window of an exhausted counter: nothing is reset.
C17_Witness ==
    /\ op = "next_reset" /\ Elapsed > period
    /\ tokens = 0 /\ capacity > 0 /\ last_reset # now_first

\* C18: in every reachable state tokens plus the number of triggers that
\* returned None since the last reset (or construction) is capacity; so at
\* most capacity triggers succeed between two resets.
C18_TokensPlusUsed ==
    /\ tokens + used = capacity
    /\ used <= capacity

\* A window of capacity 2 with one token used and one left.
C18_Witness ==
    /\ op = "trigger" /\ ret = RetNone
    /\ capacity = 2 /\ used = 1 /\ tokens = 1

\* The triggers that returned None at the instants a..b.
RECURSIVE LoggedIn(_, _)
LoggedIn(a, b) ==
    IF a > b \/ a \notin Instants THEN 0 ELSE log[a] + LoggedIn(a + 1, b)

\* C19: with no explicit reset and now values in order, an implicit reset
\* comes more than period after the reset (or construction) before it, and
\* in every interval of instants of length period at most 2 * capacity
\* triggers returned None.
C19_BurstBound ==
    /\ resets > 0 => last_reset - pre_last_reset > period
    /\ \A a \in Instants : LoggedIn(a, a + period) <= 2 * capacity

\* An interval of length period that holds 2 * capacity successful triggers:
\* the last of one window and the first of the next.
C19_Witness ==
    /\ capacity > 0 /\ period > 0 /\ op = "trigger" /\ resets = 0
    /\ \E a \in Instants : LoggedIn(a, a + period) = 2 * capacity

\* C20 as stated: with capacity > 0 a rejected trigger(now) or a
\* retry_after(now) returning Some(d) leaves tokens and last_reset as they
\* were, and d = period - (now - last_reset), the difference being signed,
\* with 0 <= d <= period.
C20_Original ==
    ( /\ op \in {"trigger", "retry_after"} /\ ret.tag = "Some"
      /\ capacity > 0 /\ arg.some ) =>
        /\ tokens = pre_tokens /\ last_reset = pre_last_reset /\ resets = 0
        /\ ret.val = period - Elapsed
        /\ 0 <= ret.val /\ ret.val <= period

\* C20 amended: with capacity > 0 a rejected trigger(now) or a
\* retry_after(now) returning Some(d) leaves tokens and last_reset as they
\* were and runs no reset, 0 <= d <= period, and for an explicit now
\* d = period - elapsed, where elapsed is now - last_reset for
\* now >= last_reset and zero for now earlier than last_reset.
C20_RejectionLeavesState ==
    ( /\ op \in {"trigger", "retry_after"} /\ ret.tag = "Some"
      /\ capacity > 0 ) =>
        /\ tokens = pre_tokens /\ last_reset = pre_last_reset /\ resets = 0
        /\ 0 <= ret.val /\ ret.val <= period
        /\ arg.some =>
               ret.val = period - (IF now_first >= pre_last_reset
                                   THEN Elapsed ELSE 0)

\* A trigger rejected at an explicit now earlier than last_reset.
C20_Witness ==
    /\ op = "trigger" /\ ret = RetSome(period) /\ arg.some
    /\ capacity > 0 /\ period > 0 /\ now_first < last_reset
====
